---- MODULE Spec2Model ----
(***************************************************************************)
(* Expression splitting and arithmetic composition of encoder states in    *)
(* TransductionModel (src/core/models/base_model.py):                      *)
(*   forward_batch_expr  (with its nested _split_and_pad_expressions and   *)
(*                        _encode_reduce_expressions),                     *)
(*   forward_expression, forward_expression_eos.                           *)
(*                                                                         *)
(* A batch's source is kept column by column (source.permute(1, 0)): a     *)
(* sequence of examples, each a sequence of token ids.  A tensor of        *)
(* encoder state is a two-dimensional array, a sequence (dimension 0) of   *)
(* sequences (dimension 1, the batch) of integers; the hidden size is 1.   *)
(* enc_outputs has shape [time, batch]; a hidden state [layers, batch].    *)
(***************************************************************************)
EXTENDS Integers, Sequences, FiniteSets, TLC

VARIABLES
    exprs,      \* the caller's expression list: terms interleaved with "+"/"-"
    source,     \* batch.source, one token sequence per example
    encoder,    \* the encoder's configuration: hidden-state kind, omitted field
    ret_batch,  \* outcome of the last forward_batch_expr call
    ret_expr,   \* outcome of the last forward_expression call
    ret_eos     \* outcome of the last forward_expression_eos call

vars == <<exprs, source, encoder, ret_batch, ret_expr, ret_eos>>

(***************************************************************************)
(* Bounds of the model.                                                    *)
(***************************************************************************)
MaxTerms == 3       \* terms of an expression handed to the three methods
MaxLen == 6         \* time length of a two-example batch

(***************************************************************************)
(* Vocabulary.                                                             *)
(***************************************************************************)
UNK == 0            \* the operator marker: (exp == 0)
SOS == 1
EOS == 2
ContentTokens == {3}

(***************************************************************************)
(* Small helpers on sequences.                                             *)
(***************************************************************************)
Slice(s, a, b) == [i \in 1..(IF b >= a THEN b - a + 1 ELSE 0) |-> s[a + i - 1]]

RECURSIVE Concat(_)
Concat(ss) == IF ss = <<>> THEN <<>> ELSE Head(ss) \o Concat(Tail(ss))

Last(s) == s[Len(s)]

(***************************************************************************)
(* Tensors with torch's broadcasting on both dimensions.                   *)
(***************************************************************************)
Dim0(t) == Len(t)
Dim1(t) == IF Len(t) = 0 THEN 0 ELSE Len(t[1])

BroadcastDim(m, n) ==
    IF m = n THEN m ELSE IF m = 1 THEN n ELSE IF n = 1 THEN m ELSE -1

Broadcastable(a, b) ==
    /\ BroadcastDim(Dim0(a), Dim0(b)) >= 0
    /\ BroadcastDim(Dim1(a), Dim1(b)) >= 0

At(t, i, j) == t[IF Dim0(t) = 1 THEN 1 ELSE i][IF Dim1(t) = 1 THEN 1 ELSE j]

torch_add(a, b) ==
    [i \in 1..BroadcastDim(Dim0(a), Dim0(b)) |->
        [j \in 1..BroadcastDim(Dim1(a), Dim1(b)) |-> At(a, i, j) + At(b, i, j)]]

torch_subtract(a, b) ==
    [i \in 1..BroadcastDim(Dim0(a), Dim0(b)) |->
        [j \in 1..BroadcastDim(Dim1(a), Dim1(b)) |-> At(a, i, j) - At(b, i, j)]]

\* torch.cat along dimension 0
torch_cat(a, b) == a \o b

\* torch.hstack of a list of tensors: concatenation along dimension 1
hstack_ok(ts) == \A i \in 1..Len(ts) : Dim0(ts[i]) = Dim0(ts[1])
torch_hstack(ts) ==
    [i \in 1..Dim0(ts[1]) |-> Concat([k \in 1..Len(ts) |-> ts[k][i]])]

(***************************************************************************)
(* ModelIO: a bag of optional fields.  A field value carries its kind      *)
(* ("absent", "tensor" or "tuple") and its tensors; "None" is the value a  *)
(* buffer entry takes in forward_expression when an operation failed.      *)
(***************************************************************************)
Absent == [t |-> "absent", v |-> <<>>]
None == [t |-> "None", v |-> <<>>]
Tensor(x) == [t |-> "tensor", v |-> <<x>>]
Tuple(a, b) == [t |-> "tuple", v |-> <<a, b>>]

ModelIO(hidden, outputs) == [enc_hidden |-> hidden, enc_outputs |-> outputs]

(***************************************************************************)
(* The encoder (SequenceEncoder): a one-layer recurrent encoder.  Each     *)
(* step folds one token into the hidden state h (and the cell state c of   *)
(* a tuple-valued hidden state) and emits h as that step's output.         *)
(***************************************************************************)
RECURSIVE rnn(_, _, _, _)
rnn(h, c, toks, outs) ==
    IF toks = <<>> THEN [h |-> h, c |-> c, outs |-> outs]
    ELSE LET h2 == 4 * h + Head(toks)
             c2 == c + Head(toks)
         IN rnn(h2, c2, Tail(toks), Append(outs, <<h2>>))

EncoderOutput(r) ==
    ModelIO(IF encoder.hidden = "tuple"
              THEN Tuple(<< <<r.h>> >>, << <<r.c>> >>)
              ELSE Tensor(<< <<r.h>> >>),
            Tensor(r.outs))

\* self._encoder(ModelIO({"source": src})) for the idx-th term of an expression;
\* the encoder reports no value for the field its configuration omits.
encoder_forward(src, idx) ==
    LET full == EncoderOutput(rnn(0, 0, src, <<>>))
    IN [k \in {"enc_hidden", "enc_outputs"} |->
          IF encoder.lacks_term = idx /\ encoder.lacks_field = k
            THEN Absent ELSE full[k]]

\* self._encoder.forward_with_hidden(ModelIO({"source": src}), hidden=hidden)
forward_with_hidden(src, hidden) ==
    LET h0 == IF hidden.t \in {"tensor", "tuple"} THEN hidden.v[1][1][1] ELSE 0
        c0 == IF hidden.t = "tuple" THEN hidden.v[2][1][1] ELSE 0
    IN EncoderOutput(rnn(h0, c0, src, <<>>))

(***************************************************************************)
(* _split_and_pad_expressions, one example (column) at a time.             *)
(***************************************************************************)
\* (exp == 0).nonzero(as_tuple=True)[0], as ascending 1-based positions
RECURSIVE nonzero(_, _, _)
nonzero(exp, lo, acc) ==
    IF lo > Len(exp) THEN acc
    ELSE nonzero(exp, lo + 1, IF exp[lo] = UNK THEN Append(acc, lo) ELSE acc)

operator_indices(exp) == nonzero(exp, 1, <<>>)

\* tensor_split cutting after each index instead of before it: every piece
\* but the last ends with the operator marker, which the next repeats.
tensor_split_inclusive(exp, indices) ==
    LET n == Len(indices)
        from(k) == IF k = 1 THEN 1 ELSE indices[k - 1]
        upto(k) == IF k = n + 1 THEN Len(exp) ELSE indices[k]
    IN [k \in 1..(n + 1) |-> Slice(exp, from(k), upto(k))]

\* torch.tensor_split(exp, indices): the pieces before, between and after
tensor_split(exp, indices) ==
    LET n == Len(indices)
        from(k) == IF k = 1 THEN 1 ELSE indices[k - 1]
        upto(k) == IF k = n + 1 THEN Len(exp) ELSE indices[k] - 1
    IN [k \in 1..(n + 1) |-> Slice(exp, from(k), upto(k))]

\* the loop run over range(len(sub_exps)): the last piece gets an <eos> too
append_eos_to_all(sub_exps, eos_tok) ==
    [i \in 1..Len(sub_exps) |-> Append(sub_exps[i], eos_tok)]

\* for i in range(len(sub_exps[0:-1])): sub_exps[i] = cat(sub_exps[i], [eos_tok])
append_eos(sub_exps, eos_tok) ==
    [i \in 1..Len(sub_exps) |->
        IF i < Len(sub_exps) THEN Append(sub_exps[i], eos_tok) ELSE sub_exps[i]]

\* for i in range(len(sub_exps[1:])): sub_exps[i + 1][0] = sos_tok
rewrite_sos(sub_exps, sos_tok) ==
    [i \in 1..Len(sub_exps) |->
        IF i > 1 THEN [sub_exps[i] EXCEPT ![1] = sos_tok] ELSE sub_exps[i]]

\* The padding of the pieces of one example, or an IndexError when the
\* example opens with an operator marker (sub_exps[0] is empty, so
\* sub_exps[0][0] fails).
pad_pieces(pieces) ==
    IF Len(pieces[1]) = 0 THEN [err |-> "IndexError", subs |-> <<>>]
    ELSE [err |-> "",
          subs |-> rewrite_sos(append_eos(pieces, Last(Last(pieces))),
                               pieces[1][1])]

\* the sub-expressions of one example
split_column(exp) == pad_pieces(tensor_split(exp, operator_indices(exp)))

\* The last piece is never re-allocated: it stays a view of the example's
\* column of batch.source, so the <sos> written into its first element is
\* written into batch.source, at the position of the last operator marker.
written_column(exp) ==
    LET indices == operator_indices(exp)
    IN IF Len(indices) = 0 \/ indices[1] = 1 THEN exp
       ELSE [exp EXCEPT ![Last(indices)] = exp[1]]

(***************************************************************************)
(* Expression lists of forward_expression and forward_expression_eos: an   *)
(* element is an operator string (op # "") or a term with its source.      *)
(***************************************************************************)
Term(src) == [op |-> "", source |-> src]
Operator(o) == [op |-> o, source |-> <<>>]

\* isinstance(term, str)
isinstance_str(e) == e.op # ""

\* the position of element i among the terms of the list
TermIndex(expressions, i) ==
    Cardinality({j \in 1..i : ~isinstance_str(expressions[j])})

\* sources: the term.source of every term, in order
RECURSIVE collect_sources(_, _, _)
collect_sources(expressions, i, acc) ==
    IF i > Len(expressions) THEN acc
    ELSE collect_sources(expressions, i + 1,
                         IF isinstance_str(expressions[i]) THEN acc
                         ELSE Append(acc, expressions[i].source))

sources_of(expressions) == collect_sources(expressions, 1, <<>>)

\* forward_expression encoding its terms without their last token
expression_enc_input_cut(src) == Slice(src, 1, Len(src) - 1)

\* ModelIO({"source": term.source})
expression_enc_input(src) == src

\* ModelIO({"source": term.source[0:-1, :]})
eos_enc_input(src) == Slice(src, 1, Len(src) - 1)

\* The representations list of forward_expression: operator strings kept,
\* every term replaced by its encoding.
expression_representations(expressions) ==
    [i \in 1..Len(expressions) |->
        IF isinstance_str(expressions[i])
          THEN [op |-> expressions[i].op, enc |-> ModelIO(Absent, Absent)]
          ELSE [op |-> "",
                enc |-> encoder_forward(expression_enc_input(expressions[i].source),
                                        TermIndex(expressions, i))]]

\* The same list in forward_expression_eos: terms encoded without their last token.
eos_representations(expressions) ==
    [i \in 1..Len(expressions) |->
        IF isinstance_str(expressions[i])
          THEN [op |-> expressions[i].op, enc |-> ModelIO(Absent, Absent)]
          ELSE [op |-> "",
                enc |-> encoder_forward(eos_enc_input(expressions[i].source),
                                        TermIndex(expressions, i))]]

\* try: buffer[key] = getattr(r, key)  except: buffer[key] = None
getattr_or_None(value) == IF value.t = "absent" THEN None ELSE value

\* try: buffer[key] = should_operate(buffer[key], getattr(r, key))
\* except: buffer[key] = None
\* getattr fails on an absent field; torch.add and torch.subtract fail on
\* None, on a tuple and on shapes that do not broadcast.
operate_or_None(should_operate, held, value) ==
    IF value.t # "tensor" \/ held.t # "tensor" THEN None
    ELSE IF ~Broadcastable(held.v[1], value.v[1]) THEN None
    ELSE IF should_operate = "add"
      THEN Tensor(torch_add(held.v[1], value.v[1]))
      ELSE Tensor(torch_subtract(held.v[1], value.v[1]))

\* The arithmetic loop over representations, from position i on.
RECURSIVE arithmetic(_, _, _, _)
arithmetic(reps, i, buffer, should_operate) ==
    IF i > Len(reps) THEN buffer
    ELSE IF reps[i].op # ""
      THEN arithmetic(reps, i + 1, buffer,
                      IF reps[i].op = "+" THEN "add" ELSE "subtract")
    ELSE IF should_operate = "False"
      THEN arithmetic(reps, i + 1,
                      [k \in {"enc_hidden", "enc_outputs"} |->
                          getattr_or_None(reps[i].enc[k])],
                      should_operate)
    ELSE arithmetic(reps, i + 1,
                    [k \in {"enc_hidden", "enc_outputs"} |->
                        operate_or_None(should_operate, buffer[k], reps[i].enc[k])],
                    "False")

\* buffer = {"enc_hidden": None, "enc_outputs": None}
EmptyBuffer == [k \in {"enc_hidden", "enc_outputs"} |-> None]

\* if buffer[key] is not None: dec_inputs.set_attribute(key, buffer[key])
set_if_not_None(value) == IF value.t = "None" THEN Absent ELSE value

\* The ModelIO handed to the decoder; src is its source, one column per example.
DecInput(src, hidden, outputs) ==
    [source |-> src, transform |-> "annotation",
     enc_hidden |-> hidden, enc_outputs |-> outputs]

NoDecInput == DecInput(<<>>, Absent, Absent)

NotCalled == [called |-> FALSE, outcome |-> "", dec |-> NoDecInput]
Returned(dec) == [called |-> TRUE, outcome |-> "ok", dec |-> dec]
Raised(error) == [called |-> TRUE, outcome |-> error, dec |-> NoDecInput]

(***************************************************************************)
(* forward_expression                                                      *)
(***************************************************************************)
\* dec_inputs of forward_expression from the buffer, and the decoder call
expression_decode(first_source, buffer) ==
    Returned(DecInput(<<first_source>>,
                      set_if_not_None(buffer["enc_hidden"]),
                      set_if_not_None(buffer["enc_outputs"])))

forward_expression(expressions) ==
    expression_decode(sources_of(expressions)[1],
                      arithmetic(expression_representations(expressions), 1,
                                 EmptyBuffer, "False"))

(***************************************************************************)
(* forward_expression_eos                                                  *)
(***************************************************************************)
\* The two assertions on the final buffer, then the decoder call.
eos_assert_decode(first, new_outputs, new_hidden) ==
    IF ~(Dim0(new_outputs) = Len(first) /\ Dim1(new_outputs) = 1)
      THEN Raised("AssertionError")
    ELSE IF new_hidden.t = "tuple" THEN Raised("AttributeError")
    ELSE IF Dim0(new_hidden.v[1]) # 1 THEN Raised("AssertionError")
    ELSE Returned(DecInput(<<first>>, new_hidden, Tensor(new_outputs)))

\* torch.cat of the reduced outputs and the output of the <eos> step
eos_concatenate(first, outputs, test_out) ==
    IF outputs.t # "tensor" THEN Raised("TypeError")
    ELSE eos_assert_decode(first,
                           torch_cat(outputs.v[1], test_out["enc_outputs"].v[1]),
                           test_out["enc_hidden"])

\* The final forward pass on [<eos>], from the reduced hidden state.
eos_final_pass(first, buffer) ==
    eos_concatenate(first, buffer["enc_outputs"],
                    forward_with_hidden(<<Last(first)>>, buffer["enc_hidden"]))

forward_expression_eos(expressions) ==
    eos_final_pass(expressions[1].source,
                   arithmetic(eos_representations(expressions), 1,
                              EmptyBuffer, "False"))

(***************************************************************************)
(* _encode_reduce_expressions                                              *)
(***************************************************************************)
Failed(error) == [err |-> error, val |-> Absent]
Value(value) == [err |-> "", val |-> value]

\* getattr(encodings[n], key), n counted from 1
term_field(encodings, n, key) ==
    IF n > Len(encodings) THEN Failed("IndexError")
    ELSE IF encodings[n][key].t = "absent" THEN Failed("AttributeError")
    ELSE Value(encodings[n][key])

\* d + getattr(encodings[2], key)[p2]
plus_third(d, f2, p2) ==
    IF f2.err # "" THEN f2
    ELSE IF ~Broadcastable(d, f2.val.v[p2]) THEN Failed("RuntimeError")
    ELSE Value(torch_add(d, f2.val.v[p2]))

\* x0 - getattr(encodings[1], key)[p1] + getattr(encodings[2], key)[p2],
\* evaluated left to right; x0 is the tensor taken from encodings[0].
minus_plus(x0, f1, p1, f2, p2) ==
    IF f1.err # "" THEN f1
    ELSE IF ~Broadcastable(x0, f1.val.v[p1]) THEN Failed("RuntimeError")
    ELSE plus_third(torch_subtract(x0, f1.val.v[p1]), f2, p2)

\* results[key] = (a, b)
tuple_result(a, b) ==
    IF a.err # "" THEN a ELSE IF b.err # "" THEN b ELSE Value(Tuple(a.val, b.val))

\* results[key] = the single tensor
tensor_result(r) == IF r.err # "" THEN r ELSE Value(Tensor(r.val))

\* results[key] for one key of encodings[0], whose value there is e0
reduce_value(e0, f1, f2) ==
    IF e0.t = "tuple"
      THEN tuple_result(minus_plus(e0.v[1], f1, 1, f2, 1),
                        minus_plus(e0.v[2], f1, 1, f2, 2))
      ELSE tensor_result(minus_plus(e0.v[1], f1, 1, f2, 1))

reduce_key(encodings, key) ==
    IF encodings[1][key].t = "absent" THEN Value(Absent)
    ELSE reduce_value(encodings[1][key],
                      term_field(encodings, 2, key),
                      term_field(encodings, 3, key))

\* encodings = [self._encoder(term) for term in exp]
encodings_of(exp) == [n \in 1..Len(exp) |-> encoder_forward(exp[n], n)]

\* ModelIO(results), or the first failure among the keys
results_of(h, o) ==
    IF h.err # "" THEN [err |-> h.err, enc |-> ModelIO(Absent, Absent)]
    ELSE IF o.err # "" THEN [err |-> o.err, enc |-> ModelIO(Absent, Absent)]
    ELSE [err |-> "", enc |-> ModelIO(h.val, o.val)]

\* The reduction of one example: the keys of encodings[0], in the order
\* enc_hidden, enc_outputs; the first failure ends the call.
reduce_example(encodings) ==
    results_of(reduce_key(encodings, "enc_hidden"),
               reduce_key(encodings, "enc_outputs"))

\* reduced_encodings, or the failure of the first example that fails
first_failure(each) ==
    LET bad == {c \in 1..Len(each) : each[c].err # ""}
        first == CHOOSE c \in bad : \A d \in bad : c <= d
    IN IF bad # {} THEN [err |-> each[first].err, encs |-> <<>>]
       ELSE [err |-> "", encs |-> [c \in 1..Len(each) |-> each[c].enc]]

\* for exp in expressions: ... reduced_encodings.append(ModelIO(results))
encode_reduce_expressions(expressions) ==
    first_failure([c \in 1..Len(expressions) |->
                      reduce_example(encodings_of(expressions[c]))])

(***************************************************************************)
(* forward_batch_expr                                                      *)
(***************************************************************************)
\* torch.hstack of one tuple position (or the tensor) of a key over the examples
stack_position(reduced, key, p) ==
    [c \in 1..Len(reduced) |-> reduced[c][key].v[p]]

hstack_tensor(ts) ==
    IF hstack_ok(ts) THEN Value(Tensor(torch_hstack(ts))) ELSE Failed("RuntimeError")

hstack_tuple(ts1, ts2) ==
    IF hstack_ok(ts1) /\ hstack_ok(ts2)
      THEN Value(Tuple(torch_hstack(ts1), torch_hstack(ts2)))
      ELSE Failed("RuntimeError")

\* Collapse the per-example ModelIOs into one by stacking along the batch
\* dimension: the keys and the tuple test are those of the first example.
collapse_key(reduced, key) ==
    IF reduced[1][key].t = "absent" THEN Value(Absent)
    ELSE IF \E c \in 1..Len(reduced) : reduced[c][key].t = "absent"
      THEN Failed("AttributeError")
    ELSE IF reduced[1][key].t = "tuple"
      THEN hstack_tuple(stack_position(reduced, key, 1),
                        stack_position(reduced, key, 2))
    ELSE hstack_tensor(stack_position(reduced, key, 1))

\* dec_input with the collapsed fields, handed to the decoder
decode_collapsed(firsts, h, o) ==
    IF h.err # "" THEN Raised(h.err)
    ELSE IF o.err # "" THEN Raised(o.err)
    ELSE Returned(DecInput(firsts, h.val, o.val))

collapse_and_decode(firsts, reduced) ==
    decode_collapsed(firsts, collapse_key(reduced, "enc_hidden"),
                     collapse_key(reduced, "enc_outputs"))

\* term[0:offset] and exp[0][offset:] for offset < 0
prefix(term, offset) == Slice(term, 1, Len(term) + offset)
suffix(term, offset) ==
    Slice(term, IF Len(term) + offset >= 0 THEN Len(term) + offset + 1 ELSE 1,
          Len(term))

\* buffer["enc_hidden"], buffer["enc_outputs"] of one example
resumed_buffer(partial_enc, full) ==
    ModelIO(full["enc_hidden"],
            Tensor(torch_cat(partial_enc["enc_outputs"].v[1],
                             full["enc_outputs"].v[1])))

\* Resume the encoding of the rest of the first term of every example from
\* its reduced hidden state, and join the outputs.
resume_first_terms(firsts, expressions, offset, partial) ==
    IF partial.err # "" THEN Raised(partial.err)
    ELSE IF \E c \in 1..Len(expressions) :
               \/ partial.encs[c]["enc_hidden"].t = "absent"
               \/ partial.encs[c]["enc_outputs"].t = "absent"
      THEN Raised("AttributeError")
    ELSE collapse_and_decode(firsts,
            [c \in 1..Len(expressions) |->
                resumed_buffer(partial.encs[c],
                    forward_with_hidden(suffix(expressions[c][1], offset),
                                        partial.encs[c]["enc_hidden"]))])

\* The offset < 0 branch: reduce the partial encodings, then resume.
reduce_during_encoding(firsts, expressions, offset) ==
    resume_first_terms(firsts, expressions, offset,
        encode_reduce_expressions(
            [c \in 1..Len(expressions) |->
                [n \in 1..Len(expressions[c]) |->
                    prefix(expressions[c][n], offset)]]))

\* The offset >= 0 branch once the full encodings are reduced.
reduce_after_encoding(firsts, offset, reduced) ==
    IF reduced.err # "" THEN Raised(reduced.err)
    ELSE IF offset = 0 THEN collapse_and_decode(firsts, reduced.encs)
    ELSE Raised("NotImplementedError")

\* torch.stack of the first sub-expressions, then the branch on offset
stack_and_reduce(firsts, expressions, offset) ==
    IF \E c \in 1..Len(firsts) : Len(firsts[c]) # Len(firsts[1])
      THEN Raised("RuntimeError")
    ELSE IF offset < 0 THEN reduce_during_encoding(firsts, expressions, offset)
    ELSE reduce_after_encoding(firsts, offset,
                               encode_reduce_expressions(expressions))

\* what the call leaves behind: its arguments, the split, the outcome
batch_record(src, offset, expressions, result) ==
    [offset |-> offset, input |-> src, expressions |-> expressions,
     called |-> TRUE, outcome |-> result.outcome, dec |-> result.dec]

after_split(src, offset, expressions) ==
    batch_record(src, offset, expressions,
                 stack_and_reduce([c \in 1..Len(src) |-> expressions[c][1]],
                                  expressions, offset))

\* expressions = _split_and_pad_expressions(batch.source)
split_and_pad_expressions(src) == [c \in 1..Len(src) |-> split_column(src[c])]

split_failed(split) == \E c \in 1..Len(split) : split[c].err # ""

batch_after(src, offset, split) ==
    IF split_failed(split)
      THEN batch_record(src, offset, <<>>, Raised("IndexError"))
      ELSE after_split(src, offset, [c \in 1..Len(src) |-> split[c].subs])

\* The outcome of forward_batch_expr(batch, offset) on batch.source = src.
forward_batch_expr(src, offset) ==
    batch_after(src, offset, split_and_pad_expressions(src))

\* batch.source after the call.  The splitter works through the examples in
\* order and runs to its end before anything else can fail: every example
\* gets its last operator marker overwritten, up to the first example on
\* which sub_exps[0][0] raises; that example and the later ones are untouched.
source_after(src) ==
    [c \in 1..Len(src) |->
        IF \E d \in 1..c : split_column(src[d]).err # "" THEN src[c]
        ELSE written_column(src[c])]

BatchNotCalled ==
    [offset |-> 0, input |-> <<>>, expressions |-> <<>>,
     called |-> FALSE, outcome |-> "", dec |-> NoDecInput]

(***************************************************************************)
(* Inputs.                                                                 *)
(***************************************************************************)
\* Sub-expressions as the dataset writes them: <sos> words <eos>
Sentences == {<<SOS, EOS>>} \cup {<<SOS, w, EOS>> : w \in ContentTokens}

OperatorStrings == {"+", "-"}

\* terms[1] ops[1] terms[2] ... ops[n-1] terms[n]
Interleave(terms, ops) ==
    [i \in 1..(2 * Len(terms) - 1) |->
        IF i % 2 = 1 THEN Term(terms[(i + 1) \div 2]) ELSE Operator(ops[i \div 2])]

Expressions ==
    UNION {{Interleave(terms, ops) :
                terms \in [1..n -> Sentences], ops \in [1..(n - 1) -> OperatorStrings]}
           : n \in 1..MaxTerms}

\* The batch column of an expression: the operators of the text are unknown
\* words, so each is the <unk> id; only the first <sos> and the last <eos> stay.
Join(terms) ==
    Concat([i \in 1..Len(terms) |->
        (IF i = 1 THEN <<terms[1][1]>> ELSE <<UNK>>)
        \o Slice(terms[i], 2, Len(terms[i]) - 1)
        \o (IF i = Len(terms) THEN <<Last(terms[i])>> ELSE <<>>)])

\* Examples of a batch: <sos> ... <eos> with words and operator markers between
Columns(len) ==
    {<<SOS>> \o mid \o <<EOS>> : mid \in [1..(len - 2) -> {UNK} \cup ContentTokens]}

Offsets == {-1, 0, 1}

Fields == {"enc_hidden", "enc_outputs"}

\* Encoder configurations: single-tensor or tuple hidden state reporting both
\* fields, and a single-tensor encoder that omits one field for one term.
Complete == [hidden : {"tensor", "tuple"}, lacks_term : {0}, lacks_field : {""}]
Partial == [hidden : {"tensor"}, lacks_term : 1..MaxTerms, lacks_field : Fields]

(***************************************************************************)
(* The state machine.                                                      *)
(***************************************************************************)
Init ==
    /\ exprs \in Expressions
    /\ source = <<Join(sources_of(exprs))>>
    /\ encoder \in Complete \cup Partial
    /\ ret_batch = BatchNotCalled
    /\ ret_expr = NotCalled
    /\ ret_eos = NotCalled

\* A batch of two examples; the expression-list methods are not used.
InitBatch ==
    /\ exprs = <<>>
    /\ source \in UNION {Columns(len) \X Columns(len) : len \in 2..MaxLen}
    /\ encoder \in Complete
    /\ ret_batch = BatchNotCalled
    /\ ret_expr = NotCalled
    /\ ret_eos = NotCalled

ForwardBatchExpr(offset) ==
    /\ ret_batch' = forward_batch_expr(source, offset)
    /\ source' = source_after(source)
    /\ UNCHANGED <<exprs, encoder, ret_expr, ret_eos>>

ForwardExpression ==
    /\ exprs # <<>>
    /\ ret_expr' = forward_expression(exprs)
    /\ UNCHANGED <<exprs, source, encoder, ret_batch, ret_eos>>

ForwardExpressionEos ==
    /\ exprs # <<>>
    /\ ret_eos' = forward_expression_eos(exprs)
    /\ UNCHANGED <<exprs, source, encoder, ret_batch, ret_expr>>

Next ==
    \/ \E offset \in Offsets : ForwardBatchExpr(offset)
    \/ ForwardExpression
    \/ ForwardExpressionEos

NextBatch == \E offset \in Offsets : ForwardBatchExpr(offset)

Spec == Init /\ [][Next]_vars

SpecBatch == InitBatch /\ [][NextBatch]_vars

(***************************************************************************)
(* Vocabulary of the properties.                                           *)
(***************************************************************************)
IsMarker(tok) == tok = UNK
NotMarker(tok) == tok # UNK

MarkerCount(exp) == Cardinality({i \in 1..Len(exp) : IsMarker(exp[i])})

\* the example's tokens with its operator markers removed
WithoutMarkers(exp) == SelectSeq(exp, NotMarker)

\* position of the k-th operator marker of an example
MarkerAt(exp, k) ==
    CHOOSE i \in 1..Len(exp) :
        /\ IsMarker(exp[i])
        /\ Cardinality({j \in 1..(i - 1) : IsMarker(exp[j])}) = k - 1

\* the tokens of the k-th of K operands, markers excluded
Operand(exp, k, K) ==
    Slice(exp, IF k = 1 THEN 1 ELSE MarkerAt(exp, k - 1) + 1,
               IF k = K THEN Len(exp) ELSE MarkerAt(exp, k) - 1)

\* a returned sub-expression without its re-synthesized markers
Stripped(subs, k) ==
    Slice(subs[k], IF k = 1 THEN 1 ELSE 2,
                   IF k = Len(subs) THEN Len(subs[k]) ELSE Len(subs[k]) - 1)

\* the terms of the caller's expression and the operators between them
TermsOf(expressions) == sources_of(expressions)
OpsOf(expressions) ==
    [i \in 1..(Len(expressions) \div 2) |-> expressions[2 * i].op]

\* the encodings of the terms, as the encoder reports them
TermEncodings(terms) == [n \in 1..Len(terms) |-> encoder_forward(terms[n], n)]

\* term 1, then every later term added or subtracted per its operator,
\* on position p of the field (p = 1 for a single tensor)
RECURSIVE LeftFold(_, _, _, _, _)
LeftFold(encs, ops, key, p, n) ==
    IF n = 1 THEN encs[1][key].v[p]
    ELSE IF ops[n - 1] = "+"
      THEN torch_add(LeftFold(encs, ops, key, p, n - 1), encs[n][key].v[p])
      ELSE torch_subtract(LeftFold(encs, ops, key, p, n - 1), encs[n][key].v[p])

FoldedField(encs, ops, key) ==
    IF encs[1][key].t = "tuple"
      THEN Tuple(LeftFold(encs, ops, key, 1, Len(encs)),
                 LeftFold(encs, ops, key, 2, Len(encs)))
      ELSE Tensor(LeftFold(encs, ops, key, 1, Len(encs)))

\* every term reports the field and all terms have one time length
Foldable(encs, terms, key) ==
    /\ \A n \in 1..Len(encs) : encs[n][key].t # "absent"
    /\ \A n \in 1..Len(terms) : Len(terms[n]) = Len(terms[1])

EqualLengths(terms) == \A n \in 1..Len(terms) : Len(terms[n]) = Len(terms[1])

\* the last forward_batch_expr call was made on the caller's expression,
\* before any call had written into batch.source
BatchOnExpression(offset) ==
    /\ ret_batch.called
    /\ ret_batch.offset = offset
    /\ ret_batch.input = <<Join(TermsOf(exprs))>>

HandsOutputs(ret) == ret.outcome = "ok" /\ ret.dec.enc_outputs.t = "tensor"

OutputsLength(ret) == Dim0(ret.dec.enc_outputs.v[1])

(***************************************************************************)
(* Properties.                                                             *)
(***************************************************************************)

\* C1: with 2-tuple hidden states in forward_batch_expr, the reduced hidden
\* state is a 2-tuple whose position p combines position p of the three
\* terms only (some fixed choice of + and - between them).
C1_TuplePositionsIndependent ==
    (BatchOnExpression(0) /\ ret_batch.outcome = "ok"
        /\ encoder.hidden = "tuple" /\ Len(TermsOf(exprs)) = 3)
    => LET encs == TermEncodings(ret_batch.expressions[1])
           got == ret_batch.dec.enc_hidden
       IN /\ got.t = "tuple"
          /\ Len(got.v) = 2
          /\ \E ops \in [1..2 -> OperatorStrings] :
                \A p \in 1..2 : got.v[p] = LeftFold(encs, ops, "enc_hidden", p, 3)

\* C2: the composite value of every field is the left fold of the terms'
\* values under the operators supplied between them, in forward_expression
\* and in forward_batch_expr alike.
C2_LeftFoldOfOperators ==
    LET terms == TermsOf(exprs)
        encs == TermEncodings(terms)
        ops == OpsOf(exprs)
    IN \A key \in Fields :
         Foldable(encs, terms, key) =>
           /\ ret_expr.called =>
                /\ ret_expr.outcome = "ok"
                /\ ret_expr.dec[key] = FoldedField(encs, ops, key)
           /\ (BatchOnExpression(0) /\ Len(terms) = 3) =>
                /\ ret_batch.outcome = "ok"
                /\ ret_batch.dec[key] = FoldedField(encs, ops, key)

\* C3: a batch whose examples differ in their number of operator markers is
\* rejected: the call ends in an error and nothing reaches the decoder.
C3_UnequalMarkerCountsRejected ==
    (ret_batch.called
        /\ \E c, d \in 1..Len(ret_batch.input) :
              MarkerCount(ret_batch.input[c]) # MarkerCount(ret_batch.input[d]))
    => ret_batch.outcome # "ok"

\* C4: with a single term and no operator the decoder receives that term's
\* own encoding, from forward_expression and from forward_batch_expr (offset 0).
C4_SingleTermUnchanged ==
    LET terms == TermsOf(exprs)
        own == encoder_forward(terms[1], 1)
    IN Len(terms) = 1 =>
         /\ ret_expr.called =>
              /\ ret_expr.outcome = "ok"
              /\ \A key \in Fields : ret_expr.dec[key] = own[key]
         /\ BatchOnExpression(0) =>
              /\ ret_batch.outcome = "ok"
              /\ \A key \in Fields : ret_batch.dec[key] = own[key]

\* C5: every returned sub-expression begins with the start marker and ends
\* with the end marker: the first is its operand plus one appended <eos>,
\* a middle one is <sos>, its operand, one appended <eos>, and the last is
\* <sos> and its operand, which already ends with the original <eos>.
C5_SubExpressionsWellFormed ==
    ret_batch.called =>
      \A c \in 1..Len(ret_batch.input) :
        LET exp == ret_batch.input[c]
            subs == ret_batch.expressions[c]
            K == Len(subs)
        IN NotMarker(exp[1]) =>
             \A k \in 1..K :
               /\ subs[k][1] = SOS
               /\ Last(subs[k]) = EOS
               /\ subs[k] = (IF k = 1 THEN <<>> ELSE <<SOS>>)
                            \o Operand(exp, k, K)
                            \o (IF k = K THEN <<>> ELSE <<EOS>>)

\* C6: an example with K-1 operator markers is split into exactly K
\* sub-expressions, and these, stripped of the re-synthesized markers and
\* concatenated in order, are the example without its operator markers.
C6_SplitRejoinRoundTrip ==
    ret_batch.called =>
      \A c \in 1..Len(ret_batch.input) :
        LET exp == ret_batch.input[c]
            subs == ret_batch.expressions[c]
        IN /\ Len(subs) = MarkerCount(exp) + 1
           /\ Concat([k \in 1..Len(subs) |-> Stripped(subs, k)])
                = WithoutMarkers(exp)

\* C7: every forward_batch_expr call with offset > 0 ends in NotImplementedError.
C7_PositiveOffsetNotImplemented ==
    (ret_batch.called /\ ret_batch.offset > 0)
    => ret_batch.outcome = "NotImplementedError"

\* C8: when one of three equally long terms has an encoding that lacks a
\* field, the call still reaches the decoder in all three methods, and the
\* composite of forward_expression and of forward_batch_expr lacks that
\* field.  (forward_expression_eos sets enc_hidden anew from the end-marker
\* step, so of it only the outcome is stated.)
C8_AbsentFieldOmitted ==
    LET terms == TermsOf(exprs)
        f == encoder.lacks_field
    IN (encoder.lacks_term \in 1..Len(terms) /\ Len(terms) = 3
            /\ EqualLengths(terms))
       => /\ ret_expr.called =>
               ret_expr.outcome = "ok" /\ ret_expr.dec[f].t = "absent"
          /\ ret_eos.called => ret_eos.outcome = "ok"
          /\ BatchOnExpression(0) =>
               ret_batch.outcome = "ok" /\ ret_batch.dec[f].t = "absent"

\* C9 as claimed: the outputs the EOS-aware path hands to the decoder are
\* one step longer than those of the offset = 0 path on the same expression.
C9_EosOneLonger ==
    HandsOutputs(ret_eos) =>
      /\ HandsOutputs(ret_expr) =>
           OutputsLength(ret_eos) = OutputsLength(ret_expr) + 1
      /\ (BatchOnExpression(0) /\ HandsOutputs(ret_batch)) =>
           OutputsLength(ret_eos) = OutputsLength(ret_batch) + 1

\* C9 as amended: on the same expression the EOS-aware path and the
\* offset = 0 path hand the decoder outputs of the same time length, the
\* time length of the first term's source.
C9_EosSameLength ==
    HandsOutputs(ret_eos) =>
      /\ OutputsLength(ret_eos) = Len(TermsOf(exprs)[1])
      /\ HandsOutputs(ret_expr) =>
           OutputsLength(ret_eos) = OutputsLength(ret_expr)
      /\ (BatchOnExpression(0) /\ HandsOutputs(ret_batch)) =>
           OutputsLength(ret_eos) = OutputsLength(ret_batch)

\* C10: forward_batch_expr leaves batch.source as it found it.
C10_SourceUnchanged ==
    ret_batch.called => source = ret_batch.input

(***************************************************************************)
(* Reachable cases of the properties that hold.                            *)
(***************************************************************************)
\* C5: a two-example call that split an example into first, middle and last
\* sub-expressions, the middle one with a word in it
C5_Witness ==
    /\ ret_batch.called
    /\ \E c \in 1..Len(ret_batch.input) :
          /\ Len(ret_batch.expressions[c]) >= 3
          /\ Len(ret_batch.expressions[c][2]) >= 3

\* C6: a call that split one example into four sub-expressions and the
\* other into one
C6_Witness ==
    /\ ret_batch.called
    /\ \E c, d \in 1..Len(ret_batch.input) :
          /\ MarkerCount(ret_batch.input[c]) = 3
          /\ Len(ret_batch.expressions[c]) = 4
          /\ Len(ret_batch.expressions[d]) = 1

\* C9: all three paths handed outputs to the decoder for one three-term expression
C9_Witness ==
    /\ Len(TermsOf(exprs)) = 3
    /\ HandsOutputs(ret_eos)
    /\ HandsOutputs(ret_expr)
    /\ BatchOnExpression(0)
    /\ HandsOutputs(ret_batch)
    /\ OutputsLength(ret_eos) = 3

====
